---- MODULE Spec2Model ----
(***************************************************************************)
(* Model of splinepy's microstructure builders:                            *)
(*   - Microstructure (the facade, microstructure.py)                      *)
(*   - _MicrostructureMultiPatch (microstructure_multi_patch.py)           *)
(*   - _MicrostructureSinglePatch (not part of the sources; modelled from  *)
(*     the specification, sections 4.2 and 7)                              *)
(***************************************************************************)
EXTENDS Integers, Sequences, FiniteSets, TLC

\* Largest number of outer patches of a multi-patch deformation function.
MaxPatches == 3
\* Largest length of the lists handed to the broadcaster on its own.
MaxLen == 4
\* Parametric dimension of every outer patch (spec section 3, Tiling).
ParaDim == 2

(***************************************************************************)
(* Python values.  Every value is a record of the same shape: k is the     *)
(* Python type, n a number that tells values of one type apart (the int    *)
(* itself, the number of patches of a multi-patch, 1/0 for True/False),    *)
(* v the items of a list.                                                  *)
(***************************************************************************)
V(k, n, v) == [k |-> k, n |-> n, v |-> v]
None == V("none", 0, <<>>)
\* an attribute that was never assigned (hasattr is False)
Unset == V("unset", 0, <<>>)
PyInt(i) == V("int", i, <<>>)
Bool(b) == V("bool", IF b THEN 1 ELSE 0, <<>>)
\* a created microstructure (the Multipatch create() returns)
Result == V("result", 0, <<>>)
Str == V("str", 0, <<>>)
Fn == V("callable", 0, <<>>)
Tile == V("tile", 0, <<>>)
List(s) == V("list", 0, s)
\* a single patch (PySpline); n is its index within its multi-patch
Spline(i) == V("spline", i, <<>>)
\* a Multipatch with n patches
MP(n) == V("multipatch", n, <<>>)
\* Multipatch.patches
Patches(mp) == [i \in 1..mp.n |-> Spline(i)]

\* Python truthiness of a value (bool(x))
Truthy(x) ==
    CASE x.k = "none" -> FALSE
      [] x.k = "bool" -> x.n = 1
      [] x.k = "int" -> x.n # 0
      [] x.k = "list" -> Len(x.v) > 0
      [] OTHER -> TRUE

\* isinstance(value, Classes), Classes a set of type names (bool is a
\* subclass of int)
IsInstance(value, Classes) ==
    \/ value.k \in Classes
    \/ value.k = "bool" /\ "int" \in Classes

\* the builtin class `property`, which line 386 hands to callable()
BuiltinProperty == V("type", 0, <<>>)
\* callable(x)
Callable(x) == x.k \in {"callable", "type"}

RECURSIVE SumSeq(_)
SumSeq(s) == IF s = <<>> THEN 0 ELSE Head(s) + SumSeq(Tail(s))

RECURSIVE ProdSeq(_)
ProdSeq(s) == IF s = <<>> THEN 1 ELSE Head(s) * ProdSeq(Tail(s))

RECURSIVE Power(_, _)
Power(b, e) == IF e = 0 THEN 1 ELSE b * Power(b, e - 1)

(***************************************************************************)
(* Attribute names of the builders.                                        *)
(***************************************************************************)
PropertyNames == <<"deformation_function", "tiling", "microtile",
                   "parametrization_function",
                   "parameter_sensitivity_function">>
Singular(number) == "_" \o PropertyNames[number + 1]
Plural(number) == "_" \o PropertyNames[number + 1] \o "s"
\* the attribute show(use_saved=True) looks for
Saved == "_microstructure_created"
AttrNames ==
    {Singular(n) : n \in 0..4} \cup {Plural(n) : n \in 0..4} \cup {Saved}
NoAttrs == [a \in AttrNames |-> Unset]

(***************************************************************************)
(* _MicrostructureMultiPatch: setters and constructor.                     *)
(***************************************************************************)
\* _set_property(value, Classes, number) on a builder with attributes attrs:
\* raised tells whether ValueError was raised, attrs are the attributes after.
SetPropertyAcceptsAnything(attrs, value, Classes, number) ==
    [raised |-> FALSE, attrs |-> [attrs EXCEPT ![Plural(number)] = value]]

MP_set_property(attrs, value, Classes, number) ==
    LET property_name == Plural(number)
        can_be_callable == number > 2
        accepted == \/ value = None
                    \/ number = 2
                    \/ IsInstance(value, Classes)
                    \/ can_be_callable /\ Callable(BuiltinProperty)
    IN  IF ~accepted
        THEN [raised |-> TRUE, attrs |-> attrs]
        ELSE [raised |-> FALSE,
              attrs |-> [attrs EXCEPT ![property_name] = value]]

\* The classes each setter hands to _set_property (lines 71, 100, 134, 184,
\* 242); number 2 passes None, which is never looked at.
SetterClasses(number) ==
    CASE number = 0 -> {"multipatch"}
      [] number = 1 -> {"int", "list"}
      [] number = 2 -> {}
      [] OTHER -> {"list"}

\* The property setters: deformation_functions, tilings, microtiles,
\* parametrization_functions, parameter_sensitivity_functions.
MP_setter(attrs, number, value) ==
    MP_set_property(attrs, value, SetterClasses(number), number)

\* __init__(deformation_functions, tilings, microtiles,
\* parametrization_functions): each argument that is not None goes through
\* its setter; the first ValueError ends the construction.
RECURSIVE MP_init_from(_, _, _)
MP_init_from(attrs, args, number) ==
    IF number > 3 THEN [raised |-> FALSE, attrs |-> attrs]
    ELSE IF args[number + 1] = None
         THEN MP_init_from(attrs, args, number + 1)
         ELSE LET r == MP_setter(attrs, number, args[number + 1])
              IN  IF r.raised THEN [raised |-> TRUE, attrs |-> attrs]
                  ELSE MP_init_from(r.attrs, args, number + 1)

MP_init(deformation_functions, tilings, microtiles, parametrization_functions) ==
    MP_init_from(NoAttrs, <<deformation_functions, tilings, microtiles,
                            parametrization_functions>>, 0)

(***************************************************************************)
(* _MicrostructureSinglePatch.  Its source is not available; what follows  *)
(* is the builder of the specification (sections 3, 4.2 and 7).            *)
(***************************************************************************)
\* An item of a geometry collection or of a field: p the outer patch, f the
\* field (0 for geometry), k the position within the patch's result.
Entry(p, f, k) == [p |-> p, f |-> f, k |-> k]
\* the null placeholder of a field
Null == Entry(0, 0, 0)

\* The type check of a single-patch setter (section 7, ConfigurationError).
SP_accepts(number, value) ==
    CASE number = 0 -> value.k = "spline"
      [] number = 1 -> \/ value.k = "int" /\ value.n >= 1
                       \/ /\ value.k = "list"
                          /\ \A i \in 1..Len(value.v) :
                                value.v[i].k = "int" /\ value.v[i].n >= 1
      [] number = 2 -> \/ value.k = "tile"
                       \/ /\ value.k = "list"
                          /\ Len(value.v) > 0
                          /\ \A i \in 1..Len(value.v) : value.v[i].k = "tile"
      [] OTHER -> value.k = "callable"

\* The constructor: every argument that is present is type-checked and
\* stored under the singular name.
RECURSIVE SP_init_from(_, _, _)
SP_init_from(attrs, args, number) ==
    IF number > 3 THEN [raised |-> FALSE, attrs |-> attrs]
    ELSE IF args[number + 1] = None
         THEN SP_init_from(attrs, args, number + 1)
         ELSE IF ~SP_accepts(number, args[number + 1])
              THEN [raised |-> TRUE, attrs |-> attrs]
              ELSE SP_init_from(
                       [attrs EXCEPT ![Singular(number)] = args[number + 1]],
                       args, number + 1)

SP_init(deformation_function, tiling, microtile, parametrization_function) ==
    SP_init_from(NoAttrs, <<deformation_function, tiling, microtile,
                            parametrization_function>>, 0)

\* Number of tile cells of a patch (section 4.2, step 2).
SP_cells(tiling) ==
    IF tiling.k = "int" THEN Power(tiling.n, ParaDim)
    ELSE ProdSeq([i \in 1..Len(tiling.v) |-> tiling.v[i].n])

\* Number of geometry items one tile contributes.
SP_tile_size(microtile) ==
    IF microtile.k = "list" THEN Len(microtile.v) ELSE 1

\* A value read from an attribute: an attribute never set reads as None.
OrNone(x) == IF x = Unset THEN None ELSE x

\* create(closing_face, knot_span_wise, macro_sensitivities) of the builder
\* with attributes attrs (section 4.2): ret is "none" (insufficient
\* configuration), "ValueError"/"TypeError" (configuration error) or
\* "result", with the geometry collection and the fields of the result.
SP_create(attrs, closing_face, knot_span_wise, macro_sensitivities) ==
    LET patch == OrNone(attrs[Singular(0)])
        tiling == OrNone(attrs[Singular(1)])
        microtile == OrNone(attrs[Singular(2)])
        pf == OrNone(attrs[Singular(3)])
        psf == OrNone(attrs[Singular(4)])
        nothing == [ret |-> "none", patches |-> <<>>, fields |-> <<>>]
        n == SP_cells(tiling) * SP_tile_size(microtile)
        field(f) == [k \in 1..n |-> Entry(patch.n, f, k)]
    IN  IF None \in {patch, tiling, microtile} THEN nothing
        ELSE IF \/ ~SP_accepts(0, patch)
                \/ ~SP_accepts(1, tiling)
                \/ ~SP_accepts(2, microtile)
                \/ tiling.k = "list" /\ Len(tiling.v) # ParaDim
                \/ closing_face # None /\ microtile.k # "tile"
                \/ pf # None /\ microtile.k # "tile"
             THEN [nothing EXCEPT !.ret = "ValueError"]
        ELSE IF \/ pf # None /\ ~Callable(pf)
                \/ psf # None /\ ~Callable(psf)
             THEN [nothing EXCEPT !.ret = "TypeError"]
        ELSE [ret |-> "result",
              patches |-> [k \in 1..n |-> Entry(patch.n, 0, k)],
              \* section 3: no sensitivity function, no sensitivity field
              fields |-> IF psf # None THEN <<field(1)>> ELSE <<>>]

(***************************************************************************)
(* _MicrostructureMultiPatch.create                                        *)
(***************************************************************************)
\* The broadcaster of lines 285-288 for number_of_patches = N; the result
\* is the Python list, as a sequence of values.
BroadcastAnyList(property, N) ==
    IF IsInstance(property, {"list"})
    THEN property.v
    ELSE [i \in 1..N |-> property]

CheckForListAndCreateOtherwise(property, N) ==
    IF IsInstance(property, {"list"}) /\ Len(property.v) = N
    THEN property.v
    ELSE [i \in 1..N |-> property]

\* CheckForAmbiguity(property, name), lines 289-299: logd is the set of
\* names the debug message was logged for, list the broadcast value.
CheckForAmbiguity(property, name, N) ==
    [logd |-> IF IsInstance(property, {"list"}) /\ Len(property.v) = N
              THEN {name} ELSE {},
     list |-> CheckForListAndCreateOtherwise(property, N)]

\* [patch for _multi_patch in multi_patches for patch in ...], lines 330-331
RECURSIVE ConcatenateReversed(_)
ConcatenateReversed(seqs) ==
    IF Len(seqs) = 0 THEN <<>>
    ELSE ConcatenateReversed(Tail(seqs)) \o Head(seqs)

RECURSIVE Concatenate(_)
Concatenate(seqs) ==
    IF Len(seqs) = 0 THEN <<>>
    ELSE Head(seqs) \o Concatenate(Tail(seqs))

\* The inner comprehension of line 337 for field f of the result of patch
\* j: the field's own items in the range of patch j, [None] * len(patches)
\* in the range of every other patch.  The results of the patches are
\* distinct objects, so `is` compares their positions.
MergeFieldWithoutPadding(multi_patches, j, f) ==
    multi_patches[j].fields[f]

MergeField(multi_patches, j, f) ==
    Concatenate([i \in 1..Len(multi_patches) |->
        IF i = j THEN multi_patches[j].fields[f]
        ELSE [k \in 1..Len(multi_patches[i].patches) |-> Null]])

\* The outer comprehension of line 337: one combined field for every field
\* of every patch result, in patch order.
MergeFields(multi_patches) ==
    Concatenate([j \in 1..Len(multi_patches) |->
        [f \in 1..Len(multi_patches[j].fields) |->
            MergeField(multi_patches, j, f)]])

\* What create() leaves behind when it does not return a result.
NoResult(outcome, logd) ==
    [outcome |-> outcome, logi |-> FALSE, logd |-> logd, N |-> 0,
     tilings |-> <<>>, multi_patches |-> <<>>, patches |-> <<>>,
     fields |-> <<>>, add_fields |-> FALSE]

\* The first exception of the per-patch results, in patch order.
RECURSIVE FirstError(_)
FirstError(rs) ==
    IF Len(rs) = 0 THEN "none"
    ELSE IF Head(rs).ret \in {"ValueError", "TypeError"} THEN Head(rs).ret
    ELSE FirstError(Tail(rs))

\* create(closing_faces, knot_span_wise, macro_sensitivities) on a builder
\* with attributes attrs, lines 271-339.  Line 310 also stores the list of
\* single-patch builders in _microstructures, an attribute nothing reads.
MP_create(attrs, closing_faces, knot_span_wise, macro_sensitivities) ==
    LET deformation_functions == attrs[Plural(0)]
        tilings == attrs[Plural(1)]
        microtiles == attrs[Plural(2)]
    IN
    \* lines 272-273 read the three attributes directly
    IF Unset \in {deformation_functions, tilings, microtiles}
    THEN NoResult("AttributeError", {})
    \* lines 274-278
    ELSE IF None \in {deformation_functions, tilings, microtiles}
    THEN [NoResult("none", {}) EXCEPT !.logi = TRUE]
    \* lines 280-284: .patches, then the two attributes read directly
    ELSE IF \/ deformation_functions.k # "multipatch"
            \/ attrs[Plural(3)] = Unset
            \/ attrs[Plural(4)] = Unset
    THEN NoResult("AttributeError", {})
    ELSE
    LET N == Len(Patches(deformation_functions))
        t == CheckForAmbiguity(tilings, "tiling", N)
        m == CheckForAmbiguity(microtiles, "microtile", N)
        pfs == CheckForListAndCreateOtherwise(attrs[Plural(3)], N)
        \* lines 305-309
        inits == [i \in 1..N |->
                    SP_init(Patches(deformation_functions)[i], t.list[i],
                            m.list[i], pfs[i])]
        logd1 == t.logd \cup m.logd
    IN
    IF \E i \in 1..N : inits[i].raised
    THEN NoResult("ValueError", logd1)
    ELSE
    LET psf == CheckForAmbiguity(attrs[Plural(4)],
                                 "parameter_sensitivity_function", N)
        logd2 == logd1 \cup psf.logd
        \* lines 316-319
        microstructures == [i \in 1..N |->
            [inits[i].attrs EXCEPT ![Singular(4)] = psf.list[i]]]
        cfs == CheckForListAndCreateOtherwise(closing_faces, N)
        ksw == CheckForListAndCreateOtherwise(knot_span_wise, N)
        ms == CheckForListAndCreateOtherwise(macro_sensitivities, N)
        \* lines 324-329
        multi_patches == [i \in 1..N |->
            SP_create(microstructures[i], cfs[i], ksw[i], ms[i])]
        failed == NoResult("AttributeError", logd2)
    IN
    IF FirstError(multi_patches) # "none"
    THEN [failed EXCEPT !.outcome = FirstError(multi_patches)]
    \* line 331: a patch whose create() returned None has no .patches
    ELSE IF \E i \in 1..N : multi_patches[i].ret = "none"
    THEN failed
    ELSE
    LET \* line 334: macro_sensitivities is the broadcast list by now
        requested == \/ Truthy(List(ms))
                     \/ ~(\A i \in 1..N : psf.list[i] = None)
    IN  [outcome |-> "result", logi |-> FALSE, logd |-> logd2, N |-> N,
         tilings |-> t.list,
         multi_patches |-> multi_patches,
         patches |-> Concatenate([i \in 1..N |-> multi_patches[i].patches]),
         fields |-> IF requested THEN MergeFields(multi_patches) ELSE <<>>,
         add_fields |-> requested]

\* show(use_saved), lines 341-379, on a builder with attributes attrs: how
\* the call ends, "shown" or the exception raised.  kwargs are empty, so
\* the create() of line 363 runs with its defaults.
MP_show(attrs, use_saved) ==
    LET created == IF use_saved THEN "result"
                   ELSE MP_create(attrs, None, None, None).outcome
        \* line 367 reads the property, whose getter defaults to None
        microtiles == OrNone(attrs[Plural(2)])
    IN  \* lines 357-360
        IF use_saved /\ attrs[Saved] = Unset THEN "ValueError"
        ELSE IF created \notin {"result", "none"} THEN created
        \* lines 366-367: iterate the microtiles, create_tile on each
        ELSE IF microtiles.k \notin {"list", "str"} THEN "TypeError"
        ELSE IF \/ microtiles.k = "str"
                \/ \E i \in 1..Len(microtiles.v) : microtiles.v[i].k # "tile"
             THEN "AttributeError"
        \* line 370: None has no show_options
        ELSE IF created = "none" THEN "AttributeError"
        ELSE "shown"

\* show(use_saved) of the single-patch builder (section 4.2, step 9: the
\* result of create() is cached on the builder for use_saved).
SP_show(attrs, use_saved) ==
    LET created == IF use_saved THEN "result"
                   ELSE SP_create(attrs, None, None, None).ret
    IN  IF use_saved /\ attrs[Saved] = Unset THEN "ValueError"
        ELSE IF created = "none" THEN "AttributeError"
        ELSE IF created # "result" THEN created
        ELSE "shown"

\* The attributes of the single-patch builder after a create() that ended
\* with ret (section 4.2, step 9).
SP_saved(attrs, ret) ==
    IF ret = "result" THEN [attrs EXCEPT ![Saved] = Result] ELSE attrs

(***************************************************************************)
(* Microstructure, the facade.                                             *)
(***************************************************************************)
\* _get_property_name(number) for a given value of _is_single_patch
GetPropertyName(number, is_single) ==
    IF is_single THEN Singular(number) ELSE Plural(number)

\* _get_property(number, message) on the delegate with attributes attrs:
\* hasattr/getattr, None when the attribute does not exist.
GetProperty(attrs, number, is_single) ==
    OrNone(attrs[GetPropertyName(number, is_single)])

\* A builder object: its class and its attributes.
Builder(cls, attrs) == [cls |-> cls, attrs |-> attrs]

\* __init__(deformation_function, tiling, microtile,
\* parametrization_function) run on a facade whose delegate is old: the flag
\* is assigned before the builder is constructed, the delegate only when the
\* construction did not raise.
Facade_init(old, deformation_function, tiling, microtile, parametrization_function) ==
    LET is_single == IsInstance(deformation_function, {"spline"})
        r == IF is_single
             THEN SP_init(deformation_function, tiling, microtile,
                          parametrization_function)
             ELSE MP_init(deformation_function, tiling, microtile,
                          parametrization_function)
    IN  [is_single |-> is_single, raised |-> r.raised,
         microstructure |-> IF r.raised THEN old
                            ELSE Builder(IF is_single THEN "single"
                                         ELSE "multi", r.attrs)]

(***************************************************************************)
(* The tile Solid3D, tiles/solid_3d.py.  Coordinates are kept exact: the  *)
(* code's 0.5 is carried as its double, and halved after the addition.     *)
(***************************************************************************)
\* an np.ndarray of ndim dimensions
Array(ndim) == V("array", ndim, <<>>)
\* the closure strings "x_min", "x_max", "y_min", "y_max", "z_min", "z_max"
Closure(i) == V("str", i, <<>>)

\* The names line 49 can resolve a bare name to: the locals of
\* _closing_tile (lines 23-29) and the names bound in the module (lines
\* 1-7).  create_tile is an attribute of the class, no builtin either.
NamesInScope ==
    {"self", "parameters", "parameter_sensitivities", "closure", "kwargs",
     "_np", "_Bezier", "_TileBase", "Solid3D"}

\* 2 * v_one_half, line 90
TwiceVOneHalf(i_derivative) == IF i_derivative = 0 THEN 1 ELSE 0

\* The signs of center_points, lines 95-106
CenterSigns ==
    << <<-1, -1, -1>>, <<1, -1, -1>>, <<-1, 1, -1>>, <<1, 1, -1>>,
       <<-1, -1, 1>>, <<1, -1, 1>>, <<-1, 1, 1>>, <<1, 1, 1>> >>

\* _Bezier(degrees=[1, 1, 1], control_points=center_points + center),
\* lines 92-111, in pass i_derivative of the loop
CenterTile(i_derivative) ==
    [degrees |-> <<1, 1, 1>>,
     control_points |->
        [p \in 1..Len(CenterSigns) |->
            [d \in 1..3 |->
                (CenterSigns[p][d] * TwiceVOneHalf(i_derivative)
                    + TwiceVOneHalf(i_derivative)) \div 2]]]

\* How a call on the tile ends.
TileRaised(exception) ==
    [outcome |-> exception, splines |-> <<>>, derivatives |-> <<>>]

RECURSIVE Solid3D_create_tile(_, _, _)

\* _closing_tile(parameters, parameter_sensitivities, closure), lines
\* 23-49: line 49 calls the bare name create_tile.
Solid3D_closing_tile(parameters, parameter_sensitivities, closure) ==
    IF "create_tile" \notin NamesInScope
    THEN TileRaised("NameError")
    ELSE Solid3D_create_tile(parameters, parameter_sensitivities, None)

\* create_tile(parameters, parameter_sensitivities, closure), lines 51-118;
\* kwargs are handed on to _closing_tile, which ignores them.
Solid3D_create_tile(parameters, parameter_sensitivities, closure) ==
    IF closure # None
    THEN Solid3D_closing_tile(None, None, None)
    ELSE [outcome |-> "return",
          splines |-> <<CenterTile(0)>>,
          derivatives |-> << <<CenterTile(1)>>, <<CenterTile(2)>> >>]

(***************************************************************************)
(* State.                                                                  *)
(***************************************************************************)
VARIABLES
    is_single_patch,   \* Microstructure._is_single_patch
    microstructure,    \* Microstructure._microstructure, the delegate
    last,              \* the last call and how it ended
    out,               \* what the last create() produced
    bc,                \* a call of the broadcaster on its own
    tile               \* a call of Solid3D.create_tile and how it ended

vars == <<is_single_patch, microstructure, last, out, bc, tile>>

Call(op, number, value, outcome, name) ==
    [op |-> op, number |-> number, value |-> value, outcome |-> outcome,
     name |-> name, closing_faces |-> None, knot_span_wise |-> None,
     macro_sensitivities |-> None]

BcIdle == [done |-> FALSE, value |-> None, N |-> 0, list |-> <<>>]

\* A call of create_tile that has not run yet.
TileCall(parameters, parameter_sensitivities, closure) ==
    [done |-> FALSE, parameters |-> parameters,
     parameter_sensitivities |-> parameter_sensitivities,
     closure |-> closure, outcome |-> "", splines |-> <<>>,
     derivatives |-> <<>>]

TileIdle == TileCall(None, None, None)

(***************************************************************************)
(* Operations of the facade.                                               *)
(***************************************************************************)
\* facade.deformation_function = value, lines 52-67
SetDeformationFunctionKeepsFlag(value) ==
    LET get_attribute(number) ==
            GetProperty(microstructure.attrs, number, is_single_patch)
        r == Facade_init(microstructure, value, get_attribute(1),
                         get_attribute(2), get_attribute(3))
    IN  /\ is_single_patch' = is_single_patch
        /\ microstructure' = r.microstructure
        /\ last' = Call("set_deformation_function", 0, value,
                        IF r.raised THEN "ValueError" ELSE "ok", "")
        /\ out' = NoResult("none", {})
        /\ UNCHANGED <<bc, tile>>

SetDeformationFunction(value) ==
    LET get_attribute(number) ==
            GetProperty(microstructure.attrs, number, is_single_patch)
        r == Facade_init(microstructure, value, get_attribute(1),
                         get_attribute(2), get_attribute(3))
    IN  /\ is_single_patch' = r.is_single
        /\ microstructure' = r.microstructure
        /\ last' = Call("set_deformation_function", 0, value,
                        IF r.raised THEN "ValueError" ELSE "ok", "")
        /\ out' = NoResult("none", {})
        /\ UNCHANGED <<bc, tile>>

\* _set_property(number, value, message), lines 308-310: setattr on the
\* delegate under the private name.
Facade_set_property(number, value) ==
    LET name == GetPropertyName(number, is_single_patch)
    IN  /\ microstructure' =
               [microstructure EXCEPT !.attrs[name] = value]
        /\ last' = Call("facade_set", number, value, "ok", name)
        /\ out' = NoResult("none", {})
        /\ UNCHANGED <<is_single_patch, bc, tile>>

\* facade.tiling = value
SetTiling(value) == Facade_set_property(1, value)
\* facade.microtile = value
SetMicrotile(value) == Facade_set_property(2, value)
\* facade.parametrization_function = value
SetParametrizationFunction(value) == Facade_set_property(3, value)
\* facade.parameter_sensitivity_function = value
SetParameterSensitivityFunction(value) == Facade_set_property(4, value)

\* reading one of the five properties of the facade
Get(number) ==
    /\ last' = Call("facade_get", number,
                    GetProperty(microstructure.attrs, number,
                                is_single_patch),
                    "ok", GetPropertyName(number, is_single_patch))
    /\ out' = NoResult("none", {})
    /\ UNCHANGED <<is_single_patch, microstructure, bc, tile>>

\* The result of the single-patch delegate in the shape of out.
SP_out(r) ==
    [NoResult(r.ret, {}) EXCEPT
        !.N = IF r.ret = "result" THEN 1 ELSE 0,
        !.multi_patches = IF r.ret = "result" THEN <<r>> ELSE <<>>,
        !.patches = r.patches, !.fields = r.fields]

\* facade.create(closing_face, knot_span_wise, macro_sensitivities), lines
\* 274-275: the call goes to the delegate, whatever its class.
Create(closing_faces, knot_span_wise, macro_sensitivities) ==
    LET r == IF microstructure.cls = "multi"
             THEN MP_create(microstructure.attrs, closing_faces,
                            knot_span_wise, macro_sensitivities)
             ELSE SP_out(SP_create(microstructure.attrs, closing_faces,
                                   knot_span_wise, macro_sensitivities))
    IN  /\ out' = r
        /\ last' = [Call("create", 0, None, r.outcome, "") EXCEPT
                        !.closing_faces = closing_faces,
                        !.knot_span_wise = knot_span_wise,
                        !.macro_sensitivities = macro_sensitivities]
        /\ microstructure' =
               IF microstructure.cls = "multi" THEN microstructure
               ELSE [microstructure EXCEPT
                        !.attrs = SP_saved(microstructure.attrs, r.outcome)]
        /\ UNCHANGED <<is_single_patch, bc, tile>>

\* facade.show(use_saved), line 292: the call goes to the delegate,
\* whatever its class.
Show(use_saved) ==
    LET multi == microstructure.cls = "multi"
        outcome == IF multi THEN MP_show(microstructure.attrs, use_saved)
                   ELSE SP_show(microstructure.attrs, use_saved)
    IN  /\ last' = Call("show", 0, Bool(use_saved), outcome, "")
        /\ out' = NoResult("none", {})
        /\ microstructure' =
               IF multi \/ use_saved THEN microstructure
               ELSE [microstructure EXCEPT !.attrs =
                        SP_saved(microstructure.attrs,
                                 SP_create(microstructure.attrs, None,
                                           None, None).ret)]
        /\ UNCHANGED <<is_single_patch, bc, tile>>

\* Values the callers of the facade hand in.
FacadeDeformationFunctionValues == {None, Str, Spline(1), MP(2)}
FacadeTilingValues == {PyInt(2), Str}
FacadeMicrotileValues == {Tile}
FacadeFunctionValues == {Fn}
FacadeMacroSensitivitiesValues == {None, Bool(TRUE)}

\* Microstructure(deformation_function, tiling, microtile,
\* parametrization_function), lines 27-35: the facades a constructor call
\* that does not raise can make.
Init ==
    \E d \in FacadeDeformationFunctionValues,
       t \in FacadeTilingValues \cup {None},
       m \in FacadeMicrotileValues \cup {None},
       p \in FacadeFunctionValues \cup {None} :
        LET r == Facade_init(Builder("multi", NoAttrs), d, t, m, p)
        IN  /\ ~r.raised
            /\ is_single_patch = r.is_single
            /\ microstructure = r.microstructure
            /\ last = Call("construct", 0, d, "ok", "")
            /\ out = NoResult("none", {})
            /\ bc = BcIdle
            /\ tile = TileIdle

Next ==
    \/ \E v \in FacadeDeformationFunctionValues : SetDeformationFunction(v)
    \/ \E v \in FacadeTilingValues : SetTiling(v)
    \/ \E v \in FacadeMicrotileValues : SetMicrotile(v)
    \/ \E v \in FacadeFunctionValues : SetParametrizationFunction(v)
    \/ \E v \in FacadeFunctionValues : SetParameterSensitivityFunction(v)
    \/ \E number \in 0..4 : Get(number)
    \/ \E s \in FacadeMacroSensitivitiesValues : Create(None, None, s)
    \/ \E use_saved \in BOOLEAN : Show(use_saved)

Spec == Init /\ [][Next]_vars

(***************************************************************************)
(* Operations on the multi-patch builder itself.                           *)
(***************************************************************************)
Builder_set(number, value) ==
    LET r == MP_setter(microstructure.attrs, number, value)
    IN  /\ microstructure.cls = "multi"
        /\ microstructure' = [microstructure EXCEPT !.attrs = r.attrs]
        /\ last' = Call("builder_set", number, value,
                        IF r.raised THEN "ValueError" ELSE "ok",
                        Plural(number))
        /\ out' = NoResult("none", {})
        /\ UNCHANGED <<is_single_patch, bc, tile>>

\* builder.deformation_functions = value
MP_SetDeformationFunctions(value) == Builder_set(0, value)
\* builder.tilings = value
MP_SetTilings(value) == Builder_set(1, value)
\* builder.microtiles = value
MP_SetMicrotiles(value) == Builder_set(2, value)
\* builder.parametrization_functions = value
MP_SetParametrizationFunctions(value) == Builder_set(3, value)
\* builder.parameter_sensitivity_functions = value
MP_SetParameterSensitivityFunctions(value) == Builder_set(4, value)

\* Values the callers of the builder hand in.
DeformationFunctionValues == {None, Str} \cup {MP(n) : n \in 1..MaxPatches}
TilingValues ==
    {None, PyInt(2), Str, List(<<PyInt(1), PyInt(2)>>),
     List(<<PyInt(2), PyInt(2), PyInt(2)>>)}
MicrotileValues == {None, Tile, List(<<Tile, Tile>>)}
ParametrizationFunctionValues == {None, Fn}
ParameterSensitivityFunctionValues == {None, Fn, List(<<Fn, None>>), Str}
ClosingFaceValues == {None, Str}
KnotSpanWiseValues == {None, Bool(TRUE)}
MacroSensitivitiesValues == {None, Bool(TRUE), List(<<Bool(TRUE), None>>)}

\* _MicrostructureMultiPatch(deformation_functions, tilings, microtiles,
\* parametrization_functions), lines 36-41, directly or as the delegate of
\* a facade: the builders a constructor call that does not raise can make.
InitBuilder ==
    \E d \in DeformationFunctionValues, t \in TilingValues,
       m \in MicrotileValues, p \in ParametrizationFunctionValues :
        LET r == MP_init(d, t, m, p)
        IN  /\ ~r.raised
            /\ is_single_patch = FALSE
            /\ microstructure = Builder("multi", r.attrs)
            /\ last = Call("construct", 0, d, "ok", "")
            /\ out = NoResult("none", {})
            /\ bc = BcIdle
            /\ tile = TileIdle

NextBuilder ==
    \/ \E v \in DeformationFunctionValues : MP_SetDeformationFunctions(v)
    \/ \E v \in TilingValues : MP_SetTilings(v)
    \/ \E v \in MicrotileValues : MP_SetMicrotiles(v)
    \/ \E v \in ParametrizationFunctionValues :
            MP_SetParametrizationFunctions(v)
    \/ \E v \in ParameterSensitivityFunctionValues :
            MP_SetParameterSensitivityFunctions(v)
    \/ \E c \in ClosingFaceValues, k \in KnotSpanWiseValues,
          s \in MacroSensitivitiesValues : Create(c, k, s)
    \/ \E use_saved \in BOOLEAN : Show(use_saved)

SpecBuilder == InitBuilder /\ [][NextBuilder]_vars

(***************************************************************************)
(* The broadcaster on its own, for every value and every patch count.      *)
(***************************************************************************)
ListItems == {None, PyInt(2), Fn}
RECURSIVE Lists(_)
Lists(n) ==
    IF n = 0 THEN {<<>>}
    ELSE Lists(n - 1) \cup
         {Append(s, x) : s \in {q \in Lists(n - 1) : Len(q) = n - 1},
                         x \in ListItems}
BroadcastValues ==
    {None, PyInt(2), Bool(TRUE), Str, Fn, Tile}
        \cup {List(s) : s \in Lists(MaxLen)}

\* CheckForListAndCreateOtherwise(value) with number_of_patches = N
Broadcast(value, N) ==
    /\ bc' = [done |-> TRUE, value |-> value, N |-> N,
              list |-> CheckForListAndCreateOtherwise(value, N)]
    /\ UNCHANGED <<is_single_patch, microstructure, last, out, tile>>

InitBroadcast ==
    /\ is_single_patch = FALSE
    /\ microstructure = Builder("multi", NoAttrs)
    /\ last = Call("construct", 0, None, "ok", "")
    /\ out = NoResult("none", {})
    /\ bc = BcIdle
    /\ tile = TileIdle

NextBroadcast ==
    \E value \in BroadcastValues, N \in 1..MaxLen : Broadcast(value, N)

SpecBroadcast == InitBroadcast /\ [][NextBroadcast]_vars

(***************************************************************************)
(* The tile Solid3D on its own, for every argument.                        *)
(***************************************************************************)
TileParameterValues == {None, Array(2), Array(3)}
TileClosureValues == {None} \cup {Closure(i) : i \in 1..6}

\* Solid3D().create_tile(parameters, parameter_sensitivities, closure)
CreateTile ==
    LET r == Solid3D_create_tile(tile.parameters,
                                 tile.parameter_sensitivities, tile.closure)
    IN  /\ ~tile.done
        /\ tile' = [tile EXCEPT !.done = TRUE, !.outcome = r.outcome,
                                !.splines = r.splines,
                                !.derivatives = r.derivatives]
        /\ UNCHANGED <<is_single_patch, microstructure, last, out, bc>>

InitTile ==
    \E parameters \in TileParameterValues,
       parameter_sensitivities \in TileParameterValues,
       closure \in TileClosureValues :
        /\ is_single_patch = FALSE
        /\ microstructure = Builder("multi", NoAttrs)
        /\ last = Call("construct", 0, None, "ok", "")
        /\ out = NoResult("none", {})
        /\ bc = BcIdle
        /\ tile = TileCall(parameters, parameter_sensitivities, closure)

NextTile == CreateTile

SpecTile == InitTile /\ [][NextTile]_vars

(***************************************************************************)
(* Properties.                                                             *)
(***************************************************************************)
\* Lengths of the per-patch results of the last create()
ResultLens == [i \in 1..Len(out.multi_patches) |->
                  Len(out.multi_patches[i].patches)]
\* First index (less one) of patch i in the combined collection
Offset(i) == SumSeq(SubSeq(ResultLens, 1, i - 1))
Returned == last.op = "create" /\ out.outcome = "result"

\* C1: whenever a multi-patch create() returns a result, the combined
\* geometry collection is the concatenation of the per-patch results in
\* ascending patch index: its length is the sum of their lengths, item k of
\* patch i sits at offset(i) + k, so the tiles of patch i precede those of
\* patch j for i < j and the order inside a patch is kept.
C1_ConcatenationInPatchOrder ==
    (Returned /\ microstructure.cls = "multi") =>
        /\ Len(out.patches) = SumSeq(ResultLens)
        /\ \A i \in 1..Len(ResultLens) : \A k \in 1..ResultLens[i] :
              out.patches[Offset(i) + k] = out.multi_patches[i].patches[k]
        /\ \A a \in 1..Len(out.patches) : \A b \in 1..Len(out.patches) :
              a < b => \/ out.patches[a].p < out.patches[b].p
                       \/ /\ out.patches[a].p = out.patches[b].p
                          /\ out.patches[a].k < out.patches[b].k

\* C1 witness: a result of two patches of different lengths
C1_Witness ==
    /\ Returned
    /\ Len(ResultLens) = 2
    /\ ResultLens[1] # ResultLens[2]
    /\ Len(out.patches) = ResultLens[1] + ResultLens[2]

C3_BroadcastLength ==
    bc.done =>
        /\ Len(bc.list) = bc.N
        /\ IF bc.value.k = "list" /\ Len(bc.value.v) = bc.N
           THEN \A i \in 1..bc.N : bc.list[i] = bc.value.v[i]
           ELSE \A i \in 1..bc.N : bc.list[i] = bc.value

\* C3 witness: a list whose length differs from the patch count was
\* replicated
C3_Witness ==
    /\ bc.done
    /\ bc.value.k = "list"
    /\ Len(bc.value.v) = 2
    /\ bc.N = 3
    /\ bc.list = <<bc.value, bc.value, bc.value>>

\* The attributes of the delegate
Attr(name) == microstructure.attrs[name]

\* C4: a multi-patch builder whose deformation functions, tilings and
\* microtiles are set and whose parametrization functions and parameter
\* sensitivity functions were never set completes create() and returns a
\* result in which no patch has a sensitivity contribution.
C4_CreateWithoutOptionalFunctions ==
    (/\ last.op = "create"
     /\ microstructure.cls = "multi"
     /\ Attr(Plural(0)).k = "multipatch"
     /\ Attr(Plural(1)) = PyInt(2)
     /\ Attr(Plural(2)) = Tile
     /\ Attr(Plural(3)) = Unset
     /\ Attr(Plural(4)) = Unset
     /\ last.closing_faces = None)
    => /\ out.outcome = "result"
       /\ Len(out.fields) = 0
       /\ \A i \in 1..Len(out.multi_patches) :
             Len(out.multi_patches[i].fields) = 0

\* C5: create() on a multi-patch builder of which a deformation function,
\* tiling or microtile has not been set yet does not raise: it logs the
\* informational message and returns no result.
C5_IncompleteConfigurationIsNoError ==
    (/\ last.op = "create"
     /\ microstructure.cls = "multi"
     /\ \E number \in 0..2 : Attr(Plural(number)) \in {Unset, None})
    => out.outcome = "none" /\ out.logi

\* The facade's flag agrees with the class of its delegate, and the
\* delegate is the single-patch builder exactly when the deformation
\* function the facade returns is a single patch.
Consistent ==
    LET df == GetProperty(microstructure.attrs, 0, is_single_patch)
    IN  /\ is_single_patch = (microstructure.cls = "single")
        /\ (microstructure.cls = "single") = (df.k = "spline")
        /\ df.k = "multipatch" => microstructure.cls = "multi"

\* the private name the delegate itself uses for property number
DelegateName(number) ==
    IF microstructure.cls = "single" THEN Singular(number)
    ELSE Plural(number)

\* One call on a facade, as C6 wants it.
C6_Step ==
    /\ (last'.op = "set_deformation_function" /\ last'.outcome = "ok")
          => Consistent'
    /\ (Consistent /\ last'.op \in {"facade_set", "facade_get"})
          => /\ Consistent'
             /\ last'.name = DelegateName(last'.number)
             /\ (last'.op = "facade_get" =>
                   last'.value = OrNone(Attr(DelegateName(last'.number))))
             /\ (last'.op = "facade_set" =>
                   microstructure'.attrs[DelegateName(last'.number)]
                       = last'.value)
    /\ (Consistent /\ last'.op = "create")
          => /\ Consistent'
             /\ (microstructure.cls = "multi" =>
                   out' = MP_create(microstructure.attrs,
                                    last'.closing_faces,
                                    last'.knot_span_wise,
                                    last'.macro_sensitivities))
             /\ (microstructure.cls = "single" =>
                   out'.outcome =
                       SP_create(microstructure.attrs,
                                 last'.closing_faces,
                                 last'.knot_span_wise,
                                 last'.macro_sensitivities).ret)
    /\ (Consistent /\ last'.op = "show")
          => /\ Consistent'
             /\ (microstructure.cls = "multi" =>
                   last'.outcome =
                       MP_show(microstructure.attrs, last'.value.n = 1))
             /\ (microstructure.cls = "single" =>
                   last'.outcome =
                       SP_show(microstructure.attrs, last'.value.n = 1))

\* C6: after every construction and every successful assignment of a
\* deformation function the delegate is the single-patch builder exactly
\* when the deformation function is a single patch and the multi-patch
\* builder when it is a multi-patch; from then on every property read and
\* write uses the delegate's own (singular or plural) name and create() and
\* show() end as the delegate's create() and show() end.
C6_DelegateMatchesDeformationFunction == Consistent /\ [][C6_Step]_vars

\* C6 witness: a multi-patch facade became a single-patch one and a
\* property was written under the singular name
C6_Witness ==
    /\ last.op = "facade_set"
    /\ last.name = Singular(1)
    /\ microstructure.cls = "single"
    /\ Attr(Singular(0)) = Spline(1)
    /\ Attr(Plural(0)) = Unset
    /\ Attr(Singular(3)) = Fn

\* C7: a successful assignment of a deformation function to a facade
\* leaves tiling, microtile, parametrization function and parameter
\* sensitivity function readable with the values they had.
C7_OtherPropertiesKept ==
    [][(last'.op = "set_deformation_function" /\ last'.outcome = "ok")
         => \A number \in 1..4 :
              GetProperty(microstructure.attrs, number, is_single_patch)' =
              GetProperty(microstructure.attrs, number, is_single_patch)
      ]_vars

\* C8: on the multi-patch builder, assigning deformation_functions a value
\* that is neither None nor a multi-patch, or tilings a value that is
\* neither None, an integer nor a list, raises ValueError and leaves the
\* builder as it was; assigning None or a value of an accepted type stores
\* exactly that value and touches nothing else.
C8_SettersValidate ==
    [][(last'.op = "builder_set" /\ last'.number \in {0, 1}) =>
         LET value == last'.value
             name == Plural(last'.number)
             accepted ==
                 \/ value = None
                 \/ last'.number = 0 /\ value.k = "multipatch"
                 \/ last'.number = 1 /\ value.k \in {"int", "list"}
         IN  IF accepted
             THEN /\ last'.outcome = "ok"
                  /\ microstructure' =
                         [microstructure EXCEPT !.attrs[name] = value]
             ELSE /\ last'.outcome = "ValueError"
                  /\ microstructure' = microstructure
      ]_vars

\* C8 witness: a string was refused as tilings and the tiling stored
\* before is still there
C8_Witness ==
    /\ last.op = "builder_set"
    /\ last.number = 1
    /\ last.value = Str
    /\ last.outcome = "ValueError"
    /\ Attr(Plural(1)) = PyInt(2)

\* the multi-patch delegate's own setter refuses value for property number
DelegateRejects(number, value) ==
    /\ microstructure.cls = "multi"
    /\ MP_setter(microstructure.attrs, number, value).raised

\* C9: assigning tiling, microtile, parametrization function or parameter
\* sensitivity function through the facade a value the delegate's setter
\* rejects raises the error at the assignment, and the value is not stored
\* (stated for the multi-patch delegate, whose setters are lines 58-242).
C9_FacadeAssignmentsValidate ==
    [][(last'.op = "facade_set"
          /\ DelegateRejects(last'.number, last'.value))
         => /\ last'.outcome = "ValueError"
            /\ microstructure' = microstructure
      ]_vars

\* C10: in a multi-patch create() with three outer patches the scalar
\* tiling 2 becomes one tiling 2 per patch with no ambiguity message; the
\* tiling list [2, 2, 2] logs the ambiguity message, patch i still gets
\* item i of the list, and create() runs to completion.
C10_TilingBroadcastWithThreePatches ==
    (/\ last.op = "create"
     /\ microstructure.cls = "multi"
     /\ Attr(Plural(0)) = MP(3)
     /\ Attr(Plural(2)) = Tile
     /\ Attr(Plural(3)) \in {Unset, None}
     /\ Attr(Plural(4)) \in {Unset, None}
     /\ last.closing_faces = None)
    => /\ Attr(Plural(1)) = PyInt(2) =>
             /\ out.outcome = "result"
             /\ out.tilings = <<PyInt(2), PyInt(2), PyInt(2)>>
             /\ "tiling" \notin out.logd
       /\ Attr(Plural(1)) = List(<<PyInt(2), PyInt(2), PyInt(2)>>) =>
             /\ out.outcome = "result"
             /\ out.tilings = <<PyInt(2), PyInt(2), PyInt(2)>>
             /\ "tiling" \in out.logd

\* The seven inputs create() broadcasts over the patches, lines 301-323,
\* each under the name its ambiguity message would carry.
BroadcastInputs ==
    <<[name |-> "tiling", value |-> Attr(Plural(1))],
      [name |-> "microtile", value |-> Attr(Plural(2))],
      [name |-> "parametrization_function", value |-> Attr(Plural(3))],
      [name |-> "parameter_sensitivity_function",
       value |-> Attr(Plural(4))],
      [name |-> "closing_face", value |-> last.closing_faces],
      [name |-> "knot_span_wise", value |-> last.knot_span_wise],
      [name |-> "macro_sensitivities",
       value |-> last.macro_sensitivities]>>

\* C11: in a multi-patch create() that ran to its end, for each of the
\* seven broadcast inputs (tilings, microtiles, parametrization functions,
\* parameter sensitivity functions, closing faces, knot_span_wise,
\* macro_sensitivities) the ambiguity message is logged exactly when the
\* input is a list with one item per outer patch.
C11_AmbiguityLoggedForEveryInput ==
    (/\ last.op = "create"
     /\ microstructure.cls = "multi"
     /\ out.outcome = "result")
    => \A i \in 1..Len(BroadcastInputs) :
         LET input == BroadcastInputs[i]
         IN  (input.name \in out.logd) <=>
             (input.value.k = "list" /\ Len(input.value.v) = out.N)

\* C12: on the multi-patch builder, assigning parametrization_functions or
\* parameter_sensitivity_functions a value that is neither None, a list
\* nor a callable raises ValueError and leaves the stored value unchanged.
C12_FunctionSettersValidate ==
    [][(/\ last'.op = "builder_set"
        /\ last'.number \in {3, 4}
        /\ last'.value.k \notin {"none", "list", "callable"})
         => /\ last'.outcome = "ValueError"
            /\ microstructure' = microstructure
      ]_vars

C16_FailedAssignmentLeavesFacade ==
    [][(/\ Consistent
        /\ last'.op = "set_deformation_function"
        /\ last'.outcome = "ValueError")
         => /\ is_single_patch' = is_single_patch
            /\ microstructure' = microstructure
            /\ is_single_patch' = (microstructure'.cls = "single")
            /\ \A number \in 0..3 :
                 GetProperty(microstructure.attrs, number,
                             is_single_patch)' =
                 GetProperty(microstructure.attrs, number,
                             is_single_patch)
      ]_vars

\* The spline over the unit cube: trilinear, its eight control points the
\* eight corners of [0, 1]^3.
UnitCube(spline) ==
    /\ spline.degrees = <<1, 1, 1>>
    /\ {spline.control_points[p] : p \in 1..Len(spline.control_points)}
         = {<<x, y, z>> : x \in {0, 1}, y \in {0, 1}, z \in {0, 1}}

\* C14: Solid3D.create_tile called with a closure that is not None returns,
\* without raising, the pair create_tile returns for closure None: one
\* spline over the unit cube and its list of derivatives.
C14_ClosingTileIsTheTile ==
    (tile.done /\ tile.closure # None)
    => LET plain == Solid3D_create_tile(tile.parameters,
                                        tile.parameter_sensitivities, None)
       IN  /\ tile.outcome = "return"
           /\ tile.splines = plain.splines
           /\ tile.derivatives = plain.derivatives
           /\ Len(tile.splines) = 1
           /\ UnitCube(tile.splines[1])

====
